---- MODULE Spec2Model ----
(***************************************************************************)
(* One invocation of find_most_similar_texts (src/functions.py:194-243),   *)
(* statement by statement.  Text is a sequence of one-character strings,   *)
(* a file is a sequence of lines (input) or a character stream (output),   *)
(* the embedding provider is a nondeterministic step that either fails or  *)
(* returns one vector per item of the batch it was given.                  *)
(***************************************************************************)
EXTENDS Integers, Sequences, FiniteSets, TLC

VARIABLES
    pc,                 \* position in the function body
    input_lines,        \* lines of input_file, as file iteration yields them
    max_items,          \* argument max_items
    output_file,        \* argument output_file (None or a path)
    items,              \* local `items`
    embed_calls,        \* batches passed to client_local.embeddings.create
    provider_raised,    \* the provider call raised inside the try block
    embeddings,         \* local `embeddings`, one vector per item
    similarity,         \* local `similarity`, an n x n matrix indexed from 0
    i, j,               \* locals `i`, `j`
    most_similar_pair,  \* local `most_similar_pair`
    fs,                 \* characters held by the file at the output path
    opens,              \* number of times the output path was opened for writing
    ret,                \* value returned to the caller
    err                 \* exception raised to the caller

vars == <<pc, input_lines, max_items, output_file, items, embed_calls,
          provider_raised, embeddings, similarity, i, j, most_similar_pair,
          fs, opens, ret, err>>

----------------------------------------------------------------------------
(* Bounds and input sets *)

MaxLines == 3           \* lines in the input file
MaxItemsArg == 3        \* largest max_items tried

NL == "\n"
Whitespace == {" ", NL}

\* Raw lines of the input file, each with its terminator: an empty line, a
\* whitespace-only line, a padded line and a plain one.  A file may repeat a
\* line, so two items can hold the same text.
RawLines ==
    { <<NL>>, <<" ", NL>>, <<" ", "a", " ", NL>>, <<"b", NL>> }

\* Vectors the provider may return: equal dimension, mixed signs, so that dot
\* products tie, are negative, and exceed or fall below self-similarity.
Vectors == { <<1, 0>>, <<0, 1>>, <<-1, 0>>, <<1, 1>> }

None == "None"
OutputFiles == { None, "", "out.txt" }

\* What the output path holds before the call.
OldContent == <<"z", NL>>

NoValue == <<>>
NoError == [type |-> "none", msg |-> ""]

----------------------------------------------------------------------------
(* Pure helpers *)

RECURSIVE LStrip(_)
LStrip(s) ==
    IF s = <<>> THEN s
    ELSE IF Head(s) \in Whitespace THEN LStrip(Tail(s)) ELSE s

RECURSIVE RStrip(_)
RStrip(s) ==
    IF s = <<>> THEN s
    ELSE IF s[Len(s)] \in Whitespace THEN RStrip(SubSeq(s, 1, Len(s) - 1)) ELSE s

\* str.strip()
Strip(s) == RStrip(LStrip(s))

\* [line.strip() for line in file if line.strip()]
RECURSIVE LoadItems(_)
LoadItems(lines) ==
    IF lines = <<>> THEN <<>>
    ELSE IF Strip(Head(lines)) # <<>>
         THEN <<Strip(Head(lines))>> \o LoadItems(Tail(lines))
         ELSE LoadItems(Tail(lines))

\* len(items) < 2
TooFewOffByOne(its) == Len(its) < 1
TooFew(its) == Len(its) < 2

Min(a, b) == IF a < b THEN a ELSE b

\* items[:max_items] for max_items >= 1
SliceNoCap(its, m) == its
Slice(its, m) == SubSeq(its, 1, Min(Len(its), m))

\* Matrix cells: a finite number or -inf.
Fin(v) == [ninf |-> FALSE, val |-> v]
NegInf == [ninf |-> TRUE, val |-> 0]
Gt(a, b) == IF a.ninf THEN FALSE ELSE IF b.ninf THEN TRUE ELSE a.val > b.val

RECURSIVE DotFrom(_, _, _)
DotFrom(u, v, k) ==
    IF k > Len(u) THEN 0 ELSE u[k] * v[k] + DotFrom(u, v, k + 1)

\* np.dot(embeddings, embeddings.T)
DotMatrix(emb) ==
    LET n == Len(emb) IN
    [c \in (0 .. n - 1) \X (0 .. n - 1) |->
        Fin(DotFrom(emb[c[1] + 1], emb[c[2] + 1], 1))]

\* np.fill_diagonal(similarity, -np.inf)
FillDiagonalZero(sim, n) ==
    [c \in DOMAIN sim |-> IF c[1] = c[2] THEN Fin(0) ELSE sim[c]]
FillDiagonal(sim, n) ==
    [c \in DOMAIN sim |-> IF c[1] = c[2] THEN NegInf ELSE sim[c]]

\* Flat (row-major) view used by np.argmax
FlatAt(sim, n, k) == sim[<<k \div n, k % n>>]

\* np.argmax(similarity): index of the first maximum of the flattened array
RECURSIVE ArgMaxLastFrom(_, _, _, _)
ArgMaxLastFrom(sim, n, k, best) ==
    IF k >= n * n THEN best
    ELSE IF ~Gt(FlatAt(sim, n, best), FlatAt(sim, n, k))
         THEN ArgMaxLastFrom(sim, n, k + 1, k)
         ELSE ArgMaxLastFrom(sim, n, k + 1, best)
ArgMaxLast(sim, n) == ArgMaxLastFrom(sim, n, 1, 0)

RECURSIVE ArgMaxFrom(_, _, _, _)
ArgMaxFrom(sim, n, k, best) ==
    IF k >= n * n THEN best
    ELSE IF Gt(FlatAt(sim, n, k), FlatAt(sim, n, best))
         THEN ArgMaxFrom(sim, n, k + 1, k)
         ELSE ArgMaxFrom(sim, n, k + 1, best)
ArgMax(sim, n) == ArgMaxFrom(sim, n, 1, 0)

\* np.unravel_index(k, (n, n))
UnravelIndex(k, n) == <<k \div n, k % n>>

\* `if output_file:`
Truthy(f) == f # None /\ f # ""

\* file.write(pair[0] + "\n"); file.write(pair[1] + "\n") on a file opened "w"
WrittenSwapped(pair) == pair[2] \o <<NL>> \o pair[1] \o <<NL>>
Written(pair) == pair[1] \o <<NL>> \o pair[2] \o <<NL>>

\* The two exceptions the function raises; both are ValueError in the code and
\* differ by message.
InsufficientInputError ==
    [type |-> "ValueError",
     msg |-> "The input file must contain at least two items to compare."]
EmbeddingProviderError ==
    [type |-> "ValueError", msg |-> "Error while generating embeddings"]

\* The list the function returns
StatusReturn(f) ==
    << [output_saved_to_location |-> f, response |-> "Task Done Successfully."] >>

----------------------------------------------------------------------------
(* State machine *)

RECURSIVE SeqsUpTo(_, _)
SeqsUpTo(S, n) ==
    IF n = 0 THEN { <<>> }
    ELSE LET shorter == SeqsUpTo(S, n - 1) IN
         shorter \cup { Append(s, x) : s \in { t \in shorter : Len(t) = n - 1 }, x \in S }

Init ==
    /\ pc = "load"
    /\ input_lines \in SeqsUpTo(RawLines, MaxLines)
    /\ max_items \in 1 .. MaxItemsArg
    /\ output_file \in OutputFiles
    /\ items = NoValue
    /\ embed_calls = <<>>
    /\ provider_raised = FALSE
    /\ embeddings = NoValue
    /\ similarity = NoValue
    /\ i = -1
    /\ j = -1
    /\ most_similar_pair = NoValue
    /\ fs = OldContent
    /\ opens = 0
    /\ ret = NoValue
    /\ err = NoError

\* with open(input_file) ...: items = [...]
ReadItems ==
    /\ pc = "load"
    /\ items' = LoadItems(input_lines)
    /\ pc' = "check"
    /\ UNCHANGED <<input_lines, max_items, output_file, embed_calls,
                   provider_raised, embeddings,
                   similarity, i, j, most_similar_pair, fs, opens, ret, err>>

\* if len(items) < 2: raise ValueError(...)
RaiseTooFew ==
    /\ pc = "check"
    /\ TooFew(items)
    /\ err' = InsufficientInputError
    /\ pc' = "failed"
    /\ UNCHANGED <<input_lines, max_items, output_file, items, embed_calls,
                   provider_raised,
                   embeddings, similarity, i, j, most_similar_pair, fs, opens, ret>>

\* items = items[:max_items]
Truncate ==
    /\ pc = "check"
    /\ ~TooFew(items)
    /\ items' = Slice(items, max_items)
    /\ pc' = "embed"
    /\ UNCHANGED <<input_lines, max_items, output_file, embed_calls,
                   provider_raised, embeddings,
                   similarity, i, j, most_similar_pair, fs, opens, ret, err>>

\* try: response = client_local.embeddings.create(input=items, ...) succeeds
EmbedOk ==
    /\ pc = "embed"
    /\ \E vecs \in [1 .. Len(items) -> Vectors] :
          embeddings' = vecs
    /\ embed_calls' = Append(embed_calls, items)
    /\ pc' = "dot"
    /\ UNCHANGED <<input_lines, max_items, output_file, items, provider_raised,
                   similarity, i, j, most_similar_pair, fs, opens, ret, err>>

\* except Exception as e: raise ValueError(...)
EmbedFailRetry ==
    /\ pc = "embed"
    /\ embed_calls' = Append(embed_calls, items)
    /\ provider_raised' = TRUE
    /\ IF Len(embed_calls) < 1
       THEN pc' = "embed" /\ err' = err
       ELSE pc' = "failed" /\ err' = EmbeddingProviderError
    /\ UNCHANGED <<input_lines, max_items, output_file, items, embeddings,
                   similarity, i, j, most_similar_pair, fs, opens, ret>>

EmbedFailSwallowed ==
    /\ pc = "embed"
    /\ embed_calls' = Append(embed_calls, items)
    /\ provider_raised' = TRUE
    /\ embeddings' = [k \in 1 .. Len(items) |-> <<0, 0>>]
    /\ pc' = "dot"
    /\ UNCHANGED <<input_lines, max_items, output_file, items, similarity, i, j,
                   most_similar_pair, fs, opens, ret, err>>

EmbedFail ==
    /\ pc = "embed"
    /\ embed_calls' = Append(embed_calls, items)
    /\ provider_raised' = TRUE
    /\ err' = EmbeddingProviderError
    /\ pc' = "failed"
    /\ UNCHANGED <<input_lines, max_items, output_file, items, embeddings,
                   similarity, i, j, most_similar_pair, fs, opens, ret>>

\* similarity = np.dot(embeddings, embeddings.T)
Dot ==
    /\ pc = "dot"
    /\ similarity' = DotMatrix(embeddings)
    /\ pc' = "fill"
    /\ UNCHANGED <<input_lines, max_items, output_file, items, embed_calls,
                   provider_raised,
                   embeddings, i, j, most_similar_pair, fs, opens, ret, err>>

\* np.fill_diagonal(similarity, -np.inf)
Fill ==
    /\ pc = "fill"
    /\ similarity' = FillDiagonal(similarity, Len(items))
    /\ pc' = "argmax"
    /\ UNCHANGED <<input_lines, max_items, output_file, items, embed_calls,
                   provider_raised,
                   embeddings, i, j, most_similar_pair, fs, opens, ret, err>>

\* i, j = np.unravel_index(np.argmax(similarity), similarity.shape)
Select ==
    /\ pc = "argmax"
    /\ LET n == Len(items)
           c == UnravelIndex(ArgMax(similarity, n), n)
       IN  i' = c[1] /\ j' = c[2]
    /\ pc' = "pair"
    /\ UNCHANGED <<input_lines, max_items, output_file, items, embed_calls,
                   provider_raised,
                   embeddings, similarity, most_similar_pair, fs, opens, ret, err>>

\* most_similar_pair = (items[i], items[j])
Pair ==
    /\ pc = "pair"
    /\ most_similar_pair' = <<items[i + 1], items[j + 1]>>
    /\ pc' = "write"
    /\ UNCHANGED <<input_lines, max_items, output_file, items, embed_calls,
                   provider_raised,
                   embeddings, similarity, i, j, fs, opens, ret, err>>

\* if output_file: with open(output_file, "w") ...: two writes
WriteOutput ==
    /\ pc = "write"
    /\ Truthy(output_file)
    /\ fs' = Written(most_similar_pair)
    /\ opens' = opens + 1
    /\ pc' = "return"
    /\ UNCHANGED <<input_lines, max_items, output_file, items, embed_calls,
                   provider_raised,
                   embeddings, similarity, i, j, most_similar_pair, ret, err>>

\* output_file is falsy: the block is skipped
SkipOutput ==
    /\ pc = "write"
    /\ ~Truthy(output_file)
    /\ pc' = "return"
    /\ UNCHANGED <<input_lines, max_items, output_file, items, embed_calls,
                   provider_raised,
                   embeddings, similarity, i, j, most_similar_pair, fs, opens,
                   ret, err>>

\* return [{...}]
Return ==
    /\ pc = "return"
    /\ ret' = StatusReturn(output_file)
    /\ pc' = "done"
    /\ UNCHANGED <<input_lines, max_items, output_file, items, embed_calls,
                   provider_raised,
                   embeddings, similarity, i, j, most_similar_pair, fs, opens, err>>

Next ==
    \/ ReadItems
    \/ RaiseTooFew
    \/ Truncate
    \/ EmbedOk
    \/ EmbedFail
    \/ Dot
    \/ Fill
    \/ Select
    \/ Pair
    \/ WriteOutput
    \/ SkipOutput
    \/ Return

Spec == Init /\ [][Next]_vars

----------------------------------------------------------------------------
(* Vocabulary of the properties *)

\* Number of processed items
N == Len(items)

\* i and j have been assigned
Selected == pc \in {"pair", "write", "return", "done"}

\* similarity has been assigned
SimilarityComputed == pc \in {"fill", "argmax", "pair", "write", "return", "done"}

\* Lines of the input holding a character that is not whitespace
NonEmptyCount ==
    Cardinality({ k \in 1 .. Len(input_lines) :
                    \E m \in 1 .. Len(input_lines[k]) :
                        input_lines[k][m] \notin Whitespace })

OffDiagonal == { c \in (0 .. N - 1) \X (0 .. N - 1) : c[1] # c[2] }

\* Dot product of embeddings a and b (0-based), summed left to right
DotOf(a, b) ==
    LET u == embeddings[a + 1]
        v == embeddings[b + 1]
        S[k \in 0 .. Len(u)] == IF k = 0 THEN 0 ELSE S[k - 1] + u[k] * v[k]
    IN  S[Len(u)]

RowMajor(c) == c[1] * N + c[2]

\* The character stream split at line terminators
RECURSIVE SplitLinesFrom(_, _, _)
SplitLinesFrom(chars, cur, acc) ==
    IF chars = <<>> THEN (IF cur = <<>> THEN acc ELSE Append(acc, cur))
    ELSE IF Head(chars) = NL
         THEN SplitLinesFrom(Tail(chars), <<>>, Append(acc, cur))
         ELSE SplitLinesFrom(Tail(chars), Append(cur, Head(chars)), acc)
SplitLines(chars) == SplitLinesFrom(chars, <<>>, <<>>)

----------------------------------------------------------------------------
(* Claims *)

\* C1: in every invocation that selects a pair, the row index i and the column
\* index j are distinct, for any positive max_items.
C1_DistinctIndices == Selected => i # j

\* C2: with n >= 2 processed items the selected cell is off the diagonal, holds
\* the maximum dot product over all off-diagonal cells, and is the first such
\* cell in row-major order (so the embeddings determine the cell).
C2_FirstOffDiagonalMax ==
    (Selected /\ N >= 2) =>
        /\ <<i, j>> \in OffDiagonal
        /\ similarity[<<i, j>>] = Fin(DotOf(i, j))
        /\ \A c \in OffDiagonal :
              /\ DotOf(c[1], c[2]) <= DotOf(i, j)
              /\ DotOf(c[1], c[2]) = DotOf(i, j) => RowMajor(<<i, j>>) <= RowMajor(c)

\* C2 witness: three items, the maximum is tied between a cell of row 0 and a
\* cell of row 1 and the scan has picked a cell that is not the first cell.
C2_Witness ==
    /\ pc = "done"
    /\ N = 3
    /\ <<i, j>> = <<0, 2>>
    /\ DotOf(1, 2) = DotOf(0, 2)
    /\ DotOf(0, 1) < DotOf(0, 2)

\* C3: whenever the similarity matrix has been computed, it was computed over
\* at least two items.
C3_AtLeastTwoItems == SimilarityComputed => N >= 2

\* C4: with fewer than two non-empty input lines the invocation raises the
\* insufficient-input error at the length check, never calls the embedding
\* provider, never opens or changes the output file and returns nothing.
C4_TooFewFailsEarly ==
    NonEmptyCount < 2 =>
        /\ pc \in {"load", "check", "failed"}
        /\ pc = "check" => ENABLED RaiseTooFew /\ ~ENABLED Truncate
        /\ pc = "failed" => err = InsufficientInputError
        /\ embed_calls = <<>>
        /\ opens = 0
        /\ fs = OldContent
        /\ ret = NoValue

\* C4 witness: exactly one non-empty line among blank ones, the call has failed.
C4_Witness ==
    /\ pc = "failed"
    /\ NonEmptyCount = 1
    /\ Len(input_lines) = 3
    /\ err = InsufficientInputError
    /\ Truthy(output_file)

\* C5: once the provider call has raised, the invocation has failed with the
\* embedding error, has selected and returned nothing, and the output file is
\* neither opened nor changed.
C5_ProviderFailureSurfaced ==
    provider_raised =>
        /\ pc = "failed"
        /\ err = EmbeddingProviderError
        /\ ret = NoValue
        /\ most_similar_pair = NoValue
        /\ i = -1 /\ j = -1
        /\ opens = 0
        /\ fs = OldContent

\* C5 witness: the provider raised on a batch of three with an output path given.
C5_Witness ==
    /\ provider_raised
    /\ pc = "failed"
    /\ Len(embed_calls) = 1 /\ Len(embed_calls[1]) = 3
    /\ Truthy(output_file)

\* C6: with more non-empty items than max_items, the provider receives exactly
\* the first max_items items in input order, and both selected indices are
\* below max_items and name items of that prefix.
C6_OnlyPrefixConsidered ==
    NonEmptyCount > max_items =>
        /\ embed_calls # <<>> =>
              embed_calls[1] = SubSeq(LoadItems(input_lines), 1, max_items)
        /\ Selected => i < max_items /\ j < max_items
        /\ most_similar_pair # NoValue =>
              most_similar_pair = << LoadItems(input_lines)[i + 1],
                                     LoadItems(input_lines)[j + 1] >>

\* C6 witness: three items a, a, b with max_items = 2, the call completed.
C6_Witness ==
    /\ pc = "done"
    /\ NonEmptyCount = 3
    /\ max_items = 2
    /\ LoadItems(input_lines)[3] = <<"b">>
    /\ most_similar_pair = << <<"a">>, <<"a">> >>

\* C7: a completed invocation returns the ordered pair (items[i], items[j]).
C7_ReturnsPair ==
    pc = "done" =>
        /\ Len(ret) = 2
        /\ ret = <<items[i + 1], items[j + 1]>>

\* C8: after the write step, a supplied destination holds exactly the two lines
\* items[i], items[j] in that order; with no destination the output path is
\* never opened and keeps its content.
C8_TwoLinesWritten ==
    /\ (pc \in {"return", "done"} /\ Truthy(output_file)) =>
          /\ SplitLines(fs) = <<items[i + 1], items[j + 1]>>
          /\ fs[Len(fs)] = NL
          /\ opens = 1
    /\ ~Truthy(output_file) => opens = 0 /\ fs = OldContent

\* C8 witness: a completed call wrote two different items to the destination.
C8_Witness ==
    /\ pc = "done"
    /\ output_file = "out.txt"
    /\ fs = <<"b", NL, "a", NL>>

\* C9: the provider is called at most once, with the whole truncated batch;
\* it is not called again after raising; a completed invocation called it
\* exactly once, and the output path is opened only after that call succeeded.
C9_SingleBatchedCall ==
    /\ Len(embed_calls) <= 1
    /\ embed_calls # <<>> =>
          /\ embed_calls[1] = items
          /\ Len(embed_calls[1]) = Min(NonEmptyCount, max_items)
    /\ pc \in {"dot", "fill", "argmax", "pair", "write", "return", "done"} =>
          Len(embed_calls) = 1 /\ ~provider_raised
    /\ opens > 0 => Len(embed_calls) = 1 /\ ~provider_raised
    /\ (provider_raised /\ pc = "failed") => Len(embed_calls) = 1

\* C9 witness: a completed call with three items, one call, one write.
C9_Witness ==
    /\ pc = "done"
    /\ opens = 1
    /\ Len(embed_calls) = 1
    /\ Len(embed_calls[1]) = 3

\* C10: the similarity matrix is symmetric before and after masking, and with
\* n >= 2 the selected cell lies strictly above the diagonal.
C10_UpperTriangle ==
    /\ SimilarityComputed =>
          \A c \in DOMAIN similarity : similarity[c] = similarity[<<c[2], c[1]>>]
    /\ (Selected /\ N >= 2) => i < j

\* C10 witness: the maximum lies off row 0, at cell (1, 2) and its mirror.
C10_Witness ==
    /\ pc = "done"
    /\ N = 3
    /\ <<i, j>> = <<1, 2>>
    /\ DotOf(2, 1) > DotOf(0, 1)

====
